---- MODULE Spec2Model ----
(***************************************************************************)
(* MindTrace journal: the file-backed entry store (utils.DataManager) and  *)
(* the polarity classifier (sentiment.SentimentAnalyzer).                  *)
(*                                                                         *)
(* Time is a wall clock counted in ticks; a minute is TicksPerMinute ticks *)
(* and a day is MinutesPerDay minutes.  Compound scores are integers in    *)
(* units of 0.0001 (VADER rounds the compound score to four decimals), so  *)
(* 0.05 is 500.                                                            *)
(***************************************************************************)
EXTENDS Integers, Sequences, FiniteSets, TLC

VARIABLES
    file,    \* data/journal_log.json: what is on disk
    clock,   \* datetime.now(), in ticks
    ret,     \* the last DataManager call: its arguments and what it returned or raised
    calls,   \* history: the arguments of the add_entry calls since the journal was last empty
    epoch,   \* history: the call that last emptied the journal, and when it started
    sa,      \* the SentimentAnalyzer call: its text, the scorer's compound score, its result
    callers  \* the sessions sharing the DataManager: where each is inside add_entry

vars == <<file, clock, ret, calls, epoch, sa, callers>>

----------------------------------------------------------------------------
(* Bounds *)

MaxEntries == 2
MaxClock == 5
MaxDrift == 1
MaxDays == 1
TicksPerMinute == 2
MinutesPerDay == 2
MaxScore == 600
MaxCallers == 2

TicksPerDay == MinutesPerDay * TicksPerMinute

(* Program constants *)

PosThreshold == 500
NegThreshold == -500

----------------------------------------------------------------------------
(* Values *)

None == [none |-> TRUE]

\* What the page submits: a text and the compound score the scorer gives it
Submissions ==
    { [text |-> "good day", score |-> PosThreshold],
      [text |-> "fine day", score |-> PosThreshold],
      [text |-> "a day", score |-> 0],
      [text |-> "bad day", score |-> NegThreshold] }
Formats == {"json", "JSON", "csv", "xml"}
EntryFields == <<"timestamp", "text", "sentiment", "score">>

\* Analyzer inputs: texts as character sequences, blank and non-blank
AnalyzerTexts ==
    { <<>>, <<" ", " ">>, <<" ", "\t">>, <<"o", "k">>, <<" ", "o", " ">> }

Min(a, b) == IF a <= b THEN a ELSE b

----------------------------------------------------------------------------
(* sentiment.py *)

IsSpace(c) == c \in {" ", "\t", "\n"}

RECURSIVE LStrip(_)
LStrip(s) ==
    IF s # <<>> /\ IsSpace(Head(s)) THEN LStrip(Tail(s)) ELSE s

RECURSIVE RStrip(_)
RStrip(s) ==
    IF s # <<>> /\ IsSpace(s[Len(s)]) THEN RStrip(SubSeq(s, 1, Len(s) - 1)) ELSE s

Strip(s) == RStrip(LStrip(s))

ClassifyLoose(s) ==
    IF s > PosThreshold THEN "Positive"
    ELSE IF s < NegThreshold THEN "Negative"
    ELSE "Neutral"

Classify(s) ==
    IF s >= PosThreshold THEN "Positive"
    ELSE IF s <= NegThreshold THEN "Negative"
    ELSE "Neutral"

\* analyze_sentiment(text), the scorer's compound score being `compound`
AnalyzeSentimentResult(text, compound) ==
    IF text = <<>> \/ Strip(text) = <<>>
    THEN [sentiment |-> "Neutral", score |-> 0]
    ELSE [sentiment |-> Classify(compound), score |-> compound]

----------------------------------------------------------------------------
(* utils.py: pure parts *)

\* strftime("%Y-%m-%d %H:%M"): the minute the instant falls in
FormatMinute(t) == t \div TicksPerMinute

\* strptime(.., "%Y-%m-%d %H:%M"): the instant the minute starts at
ParseMinute(m) == m * TicksPerMinute

Missing == [kind |-> "missing"]
BadJson == [kind |-> "badjson"]
BadBytes == [kind |-> "badbytes"]
JsonFile(data) == [kind |-> "json", data |-> data]

InitialData(created, updated) ==
    [entries |-> <<>>, created_at |-> created, last_updated |-> updated]

\* _load_data, `now` being the datetime.now() of its except branch
LoadData(now) ==
    IF file.kind = "json" THEN [status |-> "ok", data |-> file.data]
    ELSE IF file.kind \in {"missing", "badjson"}
    THEN [status |-> "ok", data |-> [entries |-> <<>>, created_at |-> now]]
    ELSE [status |-> "UnicodeDecodeError", data |-> None]

\* _save_data: what is on disk afterwards
SaveData(data, now) ==
    JsonFile([entries |-> data.entries, created_at |-> data.created_at,
              last_updated |-> now])

\* data.get("entries", [])
EntriesOf(data) == IF "entries" \in DOMAIN data THEN data.entries ELSE <<>>

AppendEntryFront(data, entry) == [data EXCEPT !.entries = <<entry>> \o @]

\* data["entries"].append(entry)
AppendEntry(data, entry) == [data EXCEPT !.entries = Append(@, entry)]

NewEntry(text, sentiment, score, now) ==
    [timestamp |-> FormatMinute(now), text |-> text,
     sentiment |-> sentiment, score |-> score]

\* max(entries, key=score) / min(entries, key=score): Python keeps the first
\* element and replaces it only by a strictly greater (smaller) one
RECURSIVE MaxFrom(_, _, _)
MaxFrom(entries, i, best) ==
    IF i > Len(entries) THEN best
    ELSE MaxFrom(entries, i + 1,
                 IF entries[i].score > best.score THEN entries[i] ELSE best)

RECURSIVE MinFrom(_, _, _)
MinFrom(entries, i, best) ==
    IF i > Len(entries) THEN best
    ELSE MinFrom(entries, i + 1,
                 IF entries[i].score < best.score THEN entries[i] ELSE best)

RECURSIVE MaxFromLast(_, _, _)
MaxFromLast(entries, i, best) ==
    IF i > Len(entries) THEN best
    ELSE MaxFromLast(entries, i + 1,
                     IF entries[i].score >= best.score THEN entries[i] ELSE best)

BestEntryLast(entries) == MaxFromLast(entries, 2, entries[1])

BestEntry(entries) == MaxFrom(entries, 2, entries[1])

WorstEntry(entries) == MinFrom(entries, 2, entries[1])

RECURSIVE SumScores(_)
SumScores(entries) ==
    IF entries = <<>> THEN 0 ELSE Head(entries).score + SumScores(Tail(entries))

SentimentCounts(entries) ==
    [s \in {entries[i].sentiment : i \in DOMAIN entries} |->
        Cardinality({i \in DOMAIN entries : entries[i].sentiment = s})]

\* get_statistics over the loaded entries; average_score is the exact quotient sum / n
Statistics(entries) ==
    IF entries = <<>>
    THEN [total_entries |-> 0, sentiment_distribution |-> <<>>,
          average_score |-> [sum |-> 0, n |-> 1],
          best_day |-> None, worst_day |-> None]
    ELSE [total_entries |-> Len(entries),
          sentiment_distribution |-> SentimentCounts(entries),
          average_score |-> [sum |-> SumScores(entries), n |-> Len(entries)],
          best_day |-> BestEntry(entries), worst_day |-> WorstEntry(entries)]

IsRecentStrict(entry, days, now) ==
    ParseMinute(entry.timestamp) > now - days * TicksPerDay

\* entry_date >= cutoff_date
IsRecent(entry, days, now) ==
    ParseMinute(entry.timestamp) >= now - days * TicksPerDay

\* get_recent_entries over the loaded entries
RecentEntries(entries, days, now) ==
    SelectSeq(entries, LAMBDA e : IsRecent(e, days, now))

\* df.sort_values('timestamp') on the few rows of the model: an insertion sort
RECURSIVE InsertRow(_, _)
InsertRow(sorted, row) ==
    IF sorted = <<>> THEN <<row>>
    ELSE IF sorted[Len(sorted)].timestamp <= row.timestamp THEN Append(sorted, row)
    ELSE Append(InsertRow(SubSeq(sorted, 1, Len(sorted) - 1), row), sorted[Len(sorted)])

RECURSIVE SortRows(_, _)
SortRows(rows, done) ==
    IF rows = <<>> THEN done ELSE SortRows(Tail(rows), InsertRow(done, Head(rows)))

\* get_entries_as_dataframe over the loaded entries: columns and rows
DataFrame(entries) ==
    IF entries = <<>> THEN [columns |-> <<>>, rows |-> <<>>]
    ELSE [columns |-> EntryFields,
          rows |-> SortRows([i \in DOMAIN entries |->
                                [entries[i] EXCEPT !.timestamp = ParseMinute(@)]],
                            <<>>)]

\* One line of the CSV: the row's cell under each column, after the index cell if any
CsvLine(df, i, index) ==
    (IF index THEN <<i - 1>> ELSE <<>>)
        \o [j \in DOMAIN df.columns |-> df.rows[i][df.columns[j]]]

\* df.to_csv(index=False): the header line and the data lines; the index column
\* is written only when index is true.  For the DataFrame with no columns the
\* header line is empty.
ToCsv(df, index) ==
    [header |-> (IF index THEN <<"">> ELSE <<>>) \o df.columns,
     rows |-> [i \in DOMAIN df.rows |-> CsvLine(df, i, index)]]

\* str.lower on the format values of the model
Lower(format) == IF format = "JSON" THEN "json" ELSE format

----------------------------------------------------------------------------
(* State *)

Result(op, arg, at, status, value) ==
    [op |-> op, arg |-> arg, at |-> at, status |-> status, value |-> value]

\* No call has returned since time last passed
Idle == Result("none", None, 0, "ok", None)

IdleAnalyzer == [text |-> <<>>, compound |-> 0, result |-> None]

\* The sessions (script threads) that share the one cached DataManager
Callers == 1 .. MaxCallers

\* A session that is not inside add_entry
IdleCaller == [pc |-> "idle", arg |-> None, data |-> None, seen |-> 0, at |-> 0]

IdleCallers == [p \in Callers |-> IdleCaller]

\* datetime.now() called again later in the same handler
Later(t) == t .. Min(t + MaxDrift, MaxClock)

\* The state after DataManager() on a fresh data directory
Init ==
    /\ \E t \in Later(0) :
          /\ file = SaveData(InitialData(0, 0), t)
          /\ clock = t
    /\ ret = Result("init", None, 0, "ok", None)
    /\ calls = <<>>
    /\ epoch = [kind |-> "init", at |-> 0]
    /\ sa = IdleAnalyzer
    /\ callers = IdleCallers

StoredEntries == IF file.kind = "json" THEN file.data.entries ELSE <<>>

----------------------------------------------------------------------------
(* DataManager operations *)

\* DataManager(): __init__, _initialize_data_file
InitializeOverwrite ==
    /\ \E t2 \in Later(clock) : \E t3 \in Later(t2) :
          /\ t3 <= Min(clock + MaxDrift, MaxClock)
          /\ file' = SaveData(InitialData(clock, t2), t3)
          /\ clock' = t3
    /\ calls' = <<>>
    /\ epoch' = [kind |-> "init", at |-> clock]
    /\ ret' = Result("init", None, clock, "ok", None)
    /\ UNCHANGED <<sa, callers>>

Initialize ==
    /\ IF file.kind = "missing"
       THEN /\ \E t2 \in Later(clock) : \E t3 \in Later(t2) :
                  /\ t3 <= Min(clock + MaxDrift, MaxClock)
                  /\ file' = SaveData(InitialData(clock, t2), t3)
                  /\ clock' = t3
            /\ calls' = <<>>
            /\ epoch' = [kind |-> "init", at |-> clock]
       ELSE UNCHANGED <<file, clock, calls, epoch>>
    /\ ret' = Result("init", None, clock, "ok", None)
    /\ UNCHANGED <<sa, callers>>

\* add_entry(text, sentiment, score)
AddEntry(text, sentiment, score) ==
    /\ Len(StoredEntries) < MaxEntries
    /\ LET ld == LoadData(clock)
           arg == [text |-> text, sentiment |-> sentiment, score |-> score]
       IN  IF ld.status # "ok"
           THEN /\ ret' = Result("add_entry", arg, clock, ld.status, None)
                /\ UNCHANGED <<file, clock, calls, epoch>>
           ELSE \E t1 \in Later(clock) : \E t2 \in Later(t1) :
                  LET entry == NewEntry(text, sentiment, score, t1)
                      data == AppendEntry(ld.data, entry)
                  IN  /\ t2 <= Min(clock + MaxDrift, MaxClock)
                      /\ file' = SaveData(data, t2)
                      /\ clock' = t2
                      /\ ret' = Result("add_entry", arg, clock, "ok", entry)
                      /\ calls' = Append(calls, [arg |-> arg, at |-> t1])
                      /\ UNCHANGED epoch
    /\ UNCHANGED <<sa, callers>>

\* get_all_entries()
GetAllEntries ==
    /\ LET ld == LoadData(clock)
       IN  ret' = Result("get_all_entries", None, clock, ld.status,
                         IF ld.status = "ok" THEN EntriesOf(ld.data) ELSE None)
    /\ UNCHANGED <<file, clock, calls, epoch, sa, callers>>

\* get_statistics()
GetStatistics ==
    /\ LET ld == LoadData(clock)
       IN  ret' = Result("get_statistics", None, clock, ld.status,
                         IF ld.status = "ok" THEN Statistics(EntriesOf(ld.data))
                         ELSE None)
    /\ UNCHANGED <<file, clock, calls, epoch, sa, callers>>

\* get_recent_entries(days)
GetRecentEntries(days) ==
    /\ LET ld == LoadData(clock)
       IN  ret' = Result("get_recent_entries", days, clock, ld.status,
                         IF ld.status = "ok"
                         THEN RecentEntries(EntriesOf(ld.data), days, clock)
                         ELSE None)
    /\ UNCHANGED <<file, clock, calls, epoch, sa, callers>>

ExportDataDefaulting(format) ==
    /\ LET ld == LoadData(clock)
       IN  IF Lower(format) = "csv"
           THEN ret' = Result("export_data", format, clock, ld.status,
                              IF ld.status = "ok"
                              THEN ToCsv(DataFrame(EntriesOf(ld.data)), FALSE)
                              ELSE None)
           ELSE ret' = Result("export_data", format, clock, ld.status, ld.data)
    /\ UNCHANGED <<file, clock, calls, epoch, sa, callers>>

\* export_data(format)
ExportData(format) ==
    /\ LET ld == LoadData(clock)
       IN  IF Lower(format) = "json"
           THEN ret' = Result("export_data", format, clock, ld.status, ld.data)
           ELSE IF Lower(format) = "csv"
           THEN ret' = Result("export_data", format, clock, ld.status,
                              IF ld.status = "ok"
                              THEN ToCsv(DataFrame(EntriesOf(ld.data)), FALSE)
                              ELSE None)
           ELSE ret' = Result("export_data", format, clock, "ValueError", None)
    /\ UNCHANGED <<file, clock, calls, epoch, sa, callers>>

ClearAllDataKeepCreated ==
    /\ \E t3 \in Later(clock) :
          /\ file' = SaveData(InitialData(IF file.kind = "json"
                                          THEN file.data.created_at ELSE clock,
                                          clock), t3)
          /\ clock' = t3
    /\ ret' = Result("clear_all_data", None, clock, "ok", None)
    /\ calls' = <<>>
    /\ epoch' = [kind |-> "clear", at |-> clock]
    /\ UNCHANGED <<sa, callers>>

\* clear_all_data()
ClearAllData ==
    /\ \E t2 \in Later(clock) : \E t3 \in Later(t2) :
          /\ t3 <= Min(clock + MaxDrift, MaxClock)
          /\ file' = SaveData(InitialData(clock, t2), t3)
          /\ clock' = t3
    /\ ret' = Result("clear_all_data", None, clock, "ok", None)
    /\ calls' = <<>>
    /\ epoch' = [kind |-> "clear", at |-> clock]
    /\ UNCHANGED <<sa, callers>>

\* Wall-clock time passes between calls
Tick ==
    /\ clock < MaxClock
    /\ clock' = clock + 1
    /\ ret' = Idle
    /\ UNCHANGED <<file, calls, epoch, sa, callers>>

\* The record is removed from the data directory
RemoveFile ==
    /\ file.kind # "missing"
    /\ file' = Missing
    /\ ret' = Result("env", None, clock, "ok", None)
    /\ calls' = <<>>
    /\ epoch' = [kind |-> "fault", at |-> clock]
    /\ UNCHANGED <<clock, sa, callers>>

\* The record's content is damaged: text that is no JSON document, or bytes
\* that are no UTF-8 text
CorruptFile(bad) ==
    /\ file # bad
    /\ file' = bad
    /\ ret' = Result("env", None, clock, "ok", None)
    /\ calls' = <<>>
    /\ epoch' = [kind |-> "fault", at |-> clock]
    /\ UNCHANGED <<clock, sa, callers>>

\* SentimentAnalyzer.analyze_sentiment(sa.text)
AnalyzeSentiment ==
    /\ sa.result = None
    /\ sa' = [sa EXCEPT !.result = AnalyzeSentimentResult(sa.text, sa.compound)]
    /\ UNCHANGED <<file, clock, ret, calls, epoch, callers>>

----------------------------------------------------------------------------
(* Specifications *)

DoAddEntry ==
    \E sub \in Submissions : AddEntry(sub.text, Classify(sub.score), sub.score)

\* The page asks for windows of whole days (7, 30, 90)
DoGetRecentEntries == \E days \in 1 .. MaxDays : GetRecentEntries(days)

DoExportData == \E format \in Formats : ExportData(format)

DoCorruptFile == \E bad \in {BadJson, BadBytes} : CorruptFile(bad)

Next ==
    \/ Initialize
    \/ DoAddEntry
    \/ GetAllEntries
    \/ GetStatistics
    \/ DoGetRecentEntries
    \/ DoExportData
    \/ ClearAllData
    \/ Tick

Spec == Init /\ [][Next]_vars

FaultNext ==
    \/ Next
    \/ RemoveFile
    \/ DoCorruptFile

SpecFault == Init /\ [][FaultNext]_vars

\* The analyzer on its own: every text of the model with every compound score
SentInit ==
    /\ file = SaveData(InitialData(0, 0), 0)
    /\ clock = 0
    /\ ret = Result("init", None, 0, "ok", None)
    /\ calls = <<>>
    /\ epoch = [kind |-> "init", at |-> 0]
    /\ sa \in [text : AnalyzerTexts, compound : -MaxScore .. MaxScore, result : {None}]
    /\ callers = IdleCallers

SentNext == AnalyzeSentiment

SpecSent == SentInit /\ [][SentNext]_vars

----------------------------------------------------------------------------
(* add_entry by concurrent sessions: the load and the save are separate steps, *)
(* with no lock between them.  The write of _save_data is taken as one step.   *)

\* add_entry, line 45: data = self._load_data().  `seen` records how many
\* add_entry calls had saved when this one loaded.
LoadEntry(p, text, sentiment, score) ==
    /\ callers[p].pc = "idle"
    /\ Len(calls) + Cardinality({q \in Callers : callers[q].pc = "loaded"}) < MaxEntries
    /\ LET ld == LoadData(clock)
           arg == [text |-> text, sentiment |-> sentiment, score |-> score]
       IN  IF ld.status # "ok"
           THEN /\ ret' = Result("add_entry", arg, clock, ld.status, None)
                /\ UNCHANGED callers
           ELSE /\ callers' = [callers EXCEPT ![p] =
                                  [pc |-> "loaded", arg |-> arg, data |-> ld.data,
                                   seen |-> Len(calls), at |-> clock]]
                /\ UNCHANGED ret
    /\ UNCHANGED <<file, clock, calls, epoch, sa>>

\* add_entry, lines 47-56: build the entry, append it to `base`, save, return it
WriteEntry(p, base) ==
    /\ callers[p].pc = "loaded"
    /\ \E t1 \in Later(clock) : \E t2 \in Later(t1) :
          LET arg == callers[p].arg
              entry == NewEntry(arg.text, arg.sentiment, arg.score, t1)
          IN  /\ t2 <= Min(clock + MaxDrift, MaxClock)
              /\ file' = SaveData(AppendEntry(base, entry), t2)
              /\ clock' = t2
              /\ ret' = Result("add_entry", arg, callers[p].at, "ok", entry)
              /\ calls' = Append(calls, [arg |-> arg, at |-> t1, by |-> p,
                                         seen |-> callers[p].seen, entry |-> entry])
    /\ callers' = [callers EXCEPT ![p] = IdleCaller]
    /\ UNCHANGED <<epoch, sa>>

SaveEntryReloaded(p) == WriteEntry(p, file.data)

\* The session appends to the data it loaded, whatever is on disk by now
SaveEntry(p) == WriteEntry(p, callers[p].data)

\* What the concurrent sessions submit
ConcSubmissions == {sub \in Submissions : sub.text \in {"good day", "bad day"}}

DoLoadEntry ==
    \E p \in Callers, sub \in ConcSubmissions :
        LoadEntry(p, sub.text, Classify(sub.score), sub.score)

DoSaveEntry == \E p \in Callers : SaveEntry(p)

ConcNext ==
    \/ DoLoadEntry
    \/ DoSaveEntry
    \/ Tick

SpecConc == Init /\ [][ConcNext]_vars

----------------------------------------------------------------------------
(* Properties *)

\* The entries carry, in order, the arguments of the recorded add_entry calls
CarriesCalls(entries) ==
    /\ Len(entries) = Len(calls)
    /\ \A i \in DOMAIN entries :
          /\ entries[i].text = calls[i].arg.text
          /\ entries[i].sentiment = calls[i].arg.sentiment
          /\ entries[i].score = calls[i].arg.score

\* The entries of seq at the indexes in keep, in order
RECURSIVE PickFrom(_, _, _)
PickFrom(seq, keep, i) ==
    IF i > Len(seq) THEN <<>>
    ELSE (IF i \in keep THEN <<seq[i]>> ELSE <<>>) \o PickFrom(seq, keep, i + 1)

NonBlank(text) == \E i \in DOMAIN text : ~IsSpace(text[i])

\* C1: from the freshly initialized journal, with no clear_all_data since, after
\* N add_entry calls get_all_entries returns exactly N entries and the i-th
\* carries the text, sentiment and score of the i-th call.
C1_AppendOrder ==
    (ret.op = "get_all_entries" /\ epoch.kind = "init") =>
        /\ ret.status = "ok"
        /\ CarriesCalls(ret.value)

C1_Witness ==
    /\ ret.op = "get_all_entries"
    /\ epoch.kind = "init"
    /\ Len(calls) = MaxEntries
    /\ calls[1].arg # calls[2].arg
    /\ Len(ret.value) = MaxEntries

\* C2: once clear_all_data has run, the record's created_at and last_updated
\* are instants of that clear (not earlier ones), the journal is empty right
\* after it, and get_all_entries lists exactly the entries appended since.
C2_ClearFresh ==
    epoch.kind = "clear" =>
        /\ file.kind = "json"
        /\ epoch.at <= file.data.created_at
        /\ file.data.created_at <= file.data.last_updated
        /\ file.data.last_updated <= clock
        /\ CarriesCalls(file.data.entries)
        /\ ret.op = "clear_all_data" =>
              /\ file.data.entries = <<>>
              /\ file.data.last_updated >= ret.at
        /\ ret.op = "get_all_entries" =>
              /\ ret.status = "ok"
              /\ CarriesCalls(ret.value)
              /\ calls = <<>> => ret.value = <<>>

C2_Witness ==
    /\ epoch.kind = "clear"
    /\ epoch.at >= TicksPerMinute
    /\ ret.op = "get_all_entries"
    /\ Len(ret.value) = 1
    /\ file.data.created_at > 0

\* C3: with the record missing or unparseable, get_all_entries, get_statistics
\* and get_recent_entries return the empty results and add_entry completes,
\* leaving a readable journal holding exactly the new entry.
C3_LoadFailureEmpty ==
    /\ (file.kind \in {"missing", "badjson", "badbytes"}
            /\ ret.op \in {"get_all_entries", "get_recent_entries"}) =>
          (ret.status = "ok" /\ ret.value = <<>>)
    /\ (file.kind \in {"missing", "badjson", "badbytes"}
            /\ ret.op = "get_statistics") =>
          /\ ret.status = "ok"
          /\ ret.value.total_entries = 0
          /\ ret.value.average_score.sum = 0
          /\ ret.value.best_day = None
          /\ ret.value.worst_day = None
    /\ (ret.op = "add_entry" /\ epoch.kind = "fault" /\ Len(calls) <= 1) =>
          /\ ret.status = "ok"
          /\ file.kind = "json"
          /\ file.data.entries = <<ret.value>>

\* C4: constructing a DataManager creates the empty record (created_at and
\* last_updated now) when none exists and otherwise leaves the record exactly
\* as it was.
C4_InitIdempotent ==
    [][ret'.op = "init" =>
          IF file.kind = "missing"
          THEN /\ file'.kind = "json"
               /\ file'.data.entries = <<>>
               /\ file'.data.created_at \in clock .. clock'
               /\ file'.data.last_updated \in file'.data.created_at .. clock'
          ELSE file' = file]_vars

C4_Witness ==
    /\ ret.op = "init"
    /\ Len(StoredEntries) = MaxEntries
    /\ epoch.kind = "clear"

\* C5 as stated: get_recent_entries(days) returns, in stored order, exactly the
\* entries appended no more than `days` days before the call; the entry
\* appended exactly `days` days before the call is among them.
C5_RecentByAge ==
    (ret.op = "get_recent_entries" /\ ret.status = "ok") =>
        LET entries == StoredEntries
            keep == {i \in DOMAIN entries :
                        ret.at - calls[i].at <= ret.arg * TicksPerDay}
        IN  ret.value = PickFrom(entries, keep, 1)

\* C5 amended: get_recent_entries(days) returns, in stored order, exactly the
\* entries whose creation time truncated to the minute is no earlier than the
\* call time minus `days` days; every entry older than `days` days is excluded,
\* and the entry appended exactly `days` days before the call is included only
\* if it was appended at the start of a minute.
C5_RecentByStoredMinute ==
    (ret.op = "get_recent_entries" /\ ret.status = "ok") =>
        LET entries == StoredEntries
            minute(i) == (calls[i].at \div TicksPerMinute) * TicksPerMinute
            keep == {i \in DOMAIN entries :
                        ret.at - minute(i) <= ret.arg * TicksPerDay}
        IN  /\ ret.value = PickFrom(entries, keep, 1)
            /\ \A i \in DOMAIN entries :
                  /\ ret.at - calls[i].at > ret.arg * TicksPerDay => i \notin keep
                  /\ ret.at - calls[i].at = ret.arg * TicksPerDay =>
                        (i \in keep <=> calls[i].at % TicksPerMinute = 0)

C5_Witness ==
    /\ ret.op = "get_recent_entries"
    /\ ret.arg = 1
    /\ Len(StoredEntries) = 2
    /\ ret.at - calls[1].at = TicksPerDay
    /\ calls[1].at % TicksPerMinute = 0
    /\ ret.value = StoredEntries

\* C6: for a non-blank text the label follows from the compound score s alone:
\* Positive when s >= 0.05, Negative when s <= -0.05, Neutral in between, and
\* the score returned is s.
C6_Thresholds ==
    (sa.result # None /\ NonBlank(sa.text)) =>
        /\ sa.result.score = sa.compound
        /\ sa.result.sentiment \in {"Positive", "Negative", "Neutral"}
        /\ sa.result.sentiment = "Positive" <=> sa.compound >= PosThreshold
        /\ sa.result.sentiment = "Negative" <=> sa.compound <= NegThreshold
        /\ sa.result.sentiment = "Neutral" <=>
              (NegThreshold < sa.compound /\ sa.compound < PosThreshold)

C6_Witness ==
    /\ sa.result # None
    /\ NonBlank(sa.text)
    /\ sa.compound = PosThreshold
    /\ sa.result.sentiment = "Positive"

\* C7: export_data("json") returns a record with entries, created_at and
\* last_updated all present, its entries those of the journal; stated for the
\* record present, missing, or holding text that is no JSON document.
C7_ExportJsonFields ==
    (ret.op = "export_data" /\ ret.arg \in {"json", "JSON"}
        /\ file.kind \in {"json", "missing", "badjson"}) =>
        /\ ret.status = "ok"
        /\ {"entries", "created_at", "last_updated"} \subseteq DOMAIN ret.value
        /\ ret.value.entries = StoredEntries

\* C8: export_data("csv") yields the header timestamp,text,sentiment,score and
\* one line per stored entry, with no index column, for every journal, the
\* empty one included.
C8_CsvHeaderRows ==
    (ret.op = "export_data" /\ ret.arg = "csv" /\ ret.status = "ok") =>
        /\ ret.value.header = EntryFields
        /\ Len(ret.value.rows) = Len(StoredEntries)
        /\ \A i \in DOMAIN ret.value.rows : Len(ret.value.rows[i]) = Len(EntryFields)

\* C9: best_day (worst_day) is the first stored entry whose score is the
\* maximum (minimum); both are absent for the empty journal, and both are the
\* same entry when all scores are equal.
C9_BestWorst ==
    (ret.op = "get_statistics" /\ ret.status = "ok") =>
        LET entries == StoredEntries
            isMax(i) == \A j \in DOMAIN entries : entries[j].score <= entries[i].score
            isMin(i) == \A j \in DOMAIN entries : entries[j].score >= entries[i].score
            first(i, P(_)) == P(i) /\ \A j \in 1 .. (i - 1) : ~P(j)
        IN  IF entries = <<>>
            THEN ret.value.best_day = None /\ ret.value.worst_day = None
            ELSE /\ \E b \in DOMAIN entries :
                       first(b, isMax) /\ ret.value.best_day = entries[b]
                 /\ \E w \in DOMAIN entries :
                       first(w, isMin) /\ ret.value.worst_day = entries[w]
                 /\ (\A i \in DOMAIN entries : isMax(i)) =>
                       (ret.value.best_day = entries[1]
                          /\ ret.value.worst_day = entries[1])

C9_Witness ==
    /\ ret.op = "get_statistics"
    /\ Len(StoredEntries) = 2
    /\ StoredEntries[1].score = StoredEntries[2].score
    /\ StoredEntries[1] # StoredEntries[2]
    /\ ret.value.best_day = StoredEntries[1]
    /\ ret.value.worst_day = StoredEntries[1]

\* C10: export_data with a format that is neither json nor csv raises the
\* unsupported-format error, returns no payload, and leaves the record as it was.
C10_UnsupportedFormat ==
    /\ [](ret.op = "export_data" /\ ret.arg \notin {"json", "JSON", "csv"} =>
             ret.status = "ValueError" /\ ret.value = None)
    /\ [][ret'.op = "export_data" => file' = file]_vars

C10_Witness ==
    /\ ret.op = "export_data"
    /\ ret.arg = "xml"
    /\ ret.status = "ValueError"
    /\ Len(StoredEntries) = MaxEntries

\* More add_entry calls have returned an entry than the record holds
LostUpdate == Len(StoredEntries) < Len(calls)

\* The j-th call to save had loaded before the call saving just before it saved
Overlapped(j) == calls[j].seen < j - 1

\* C11: add_entry saves the data it loaded plus its entry, so when two sessions
\* both load before either saves, the later save drops the other's entry though
\* both calls returned one; entries are lost exactly when calls overlapped so,
\* and never through the calls of a single session.
C11_LostUpdate ==
    /\ [](LostUpdate <=> \E j \in DOMAIN calls : Overlapped(j))
    /\ [](\A j \in DOMAIN calls : \A i \in (calls[j].seen + 1) .. (j - 1) :
              calls[i].by # calls[j].by)
    /\ [][\A p \in Callers :
             (callers[p].pc = "loaded" /\ callers'[p].pc = "idle") =>
                 StoredEntries' = Append(callers[p].data.entries, ret'.value)]_vars

C11_Witness ==
    /\ \A p \in Callers : callers[p].pc = "idle"
    /\ Len(calls) = 2
    /\ calls[1].by # calls[2].by
    /\ calls[1].seen = 0
    /\ calls[2].seen = 0
    /\ calls[1].entry # calls[2].entry
    /\ ret.value = calls[2].entry
    /\ StoredEntries = <<calls[2].entry>>

====
